---- MODULE Spec2Model ----
(***************************************************************************)
(* Build-number allocation and version resolution of aider-standalone:     *)
(* scripts/compute_version.py and scripts/fetch_aider_release.py.          *)
(*                                                                         *)
(* A Python str is a sequence of one-character strings; None and a value   *)
(* that is not a str are distinguished one-element sequences.              *)
(***************************************************************************)
EXTENDS Integers, Sequences, FiniteSets

VARIABLES
    releases,   \* the release listing of the GitHub repository (list of objects)
    pypi,       \* the JSON document of each variant's PyPI endpoint
    args,       \* the inputs of the invocation in progress / last made
    out,        \* what that invocation produced
    published   \* (key, build number) pairs released so far

vars == <<releases, pypi, args, out, published>>

----------------------------------------------------------------------------
(* Python values *)

None == <<"None">>
NonStr == <<"int">>

IsStr(v) == v /= None /\ v /= NonStr

\* Python truthiness of an Optional[str]
Truthy(v) == v /= None /\ v /= <<>>

DigitSeq == <<"0", "1", "2", "3", "4", "5", "6", "7", "8", "9">>
Digits == {DigitSeq[i] : i \in 1..10}
HexChars == Digits \cup {"a", "b", "c", "d", "e", "f"}

DigitVal(c) == (CHOOSE i \in 1..10 : DigitSeq[i] = c) - 1

RECURSIVE NatToStr(_)
NatToStr(n) ==
    IF n < 10 THEN <<DigitSeq[n + 1]>>
    ELSE NatToStr(n \div 10) \o <<DigitSeq[(n % 10) + 1]>>

\* str(n) / format of an int
IntToStr(n) == IF n < 0 THEN <<"-">> \o NatToStr(0 - n) ELSE NatToStr(n)

RECURSIVE StrToInt(_)
\* int(s) for a string of decimal digits (leading zeros allowed)
StrToInt(s) ==
    IF s = <<>> THEN 0
    ELSE 10 * StrToInt(SubSeq(s, 1, Len(s) - 1)) + DigitVal(s[Len(s)])

\* format of a str-or-None field: str(None) is "None"
PyStr(v) == IF v = None THEN <<"N", "o", "n", "e">> ELSE v

Max(a, b) == IF a >= b THEN a ELSE b
Min(a, b) == IF a <= b THEN a ELSE b

----------------------------------------------------------------------------
(* RELEASE_TAG_TEMPLATES and RE_RELEASE_TAGS *)

Variants == {"aider-chat", "aider-ce"}
SourceTypes == {"pypi", "main"}

L_standalone == <<"s", "t", "a", "n", "d", "a", "l", "o", "n", "e", "-">>
L_ce == <<"c", "e", "-">>
L_v == <<"v">>
L_main == <<"m", "a", "i", "n", "-">>
L_build == <<"-", "b", "u", "i", "l", "d">>
L_hyphen == <<"-">>
L_aider == <<"a", "i", "d", "e", "r", "-">>
L_aider_ce == <<"a", "i", "d", "e", "r", "-", "c", "e", "-">>

\* the literal text every tag of (variant, source_type) starts with
TagPrefix(variant, source_type) ==
    L_standalone
    \o (IF variant = "aider-ce" THEN L_ce ELSE <<>>)
    \o (IF source_type = "main" THEN L_main ELSE L_v)

Lit(s) == [k |-> "lit", s |-> s]
Field(name) == [k |-> "field", name |-> name]

\* a format template: literal text and {replacement fields}
RELEASE_TAG_TEMPLATES(variant, source_type) ==
    IF source_type = "pypi"
    THEN <<Lit(TagPrefix(variant, "pypi")), Field("aider_version"),
           Lit(L_build), Field("build_number")>>
    ELSE <<Lit(TagPrefix(variant, "main")), Field("date"), Lit(L_hyphen),
           Field("commit_hash"), Lit(L_build), Field("build_number")>>

DateLen == 8

\* a named group (?P<name>cls{min,max}); max = 0 stands for unbounded (+)
Group(name, cls, min, max) ==
    [k |-> "grp", name |-> name, cls |-> cls, min |-> min, max |-> max]
EndAnchor == [k |-> "eol"]

\* a compiled pattern: the elements after ^, in order
RE_RELEASE_TAGS(variant, source_type) ==
    IF source_type = "pypi"
    THEN <<Lit(TagPrefix(variant, "pypi")), Group("version", "nothyphen", 1, 0),
           Lit(L_build), Group("build", "digit", 1, 0), EndAnchor>>
    ELSE <<Lit(TagPrefix(variant, "main")), Group("date", "digit", DateLen, DateLen),
           Lit(L_hyphen), Group("commit", "hex", 1, 0),
           Lit(L_build), Group("build", "digit", 1, 0), EndAnchor>>

----------------------------------------------------------------------------
(* str.format and re.Pattern.match *)

FieldText(name, fields) ==
    IF name = "build_number" THEN IntToStr(fields.build_number)
    ELSE PyStr(fields[name])

RECURSIVE FormatFrom(_, _, _)
FormatFrom(template, i, fields) ==
    IF i > Len(template) THEN <<>>
    ELSE (IF template[i].k = "lit" THEN template[i].s
          ELSE FieldText(template[i].name, fields))
         \o FormatFrom(template, i + 1, fields)

\* template.format(**fields)
Format(template, fields) == FormatFrom(template, 1, fields)

InClass(c, cls) ==
    CASE cls = "digit" -> c \in Digits
      [] cls = "hex" -> c \in HexChars
      [] cls = "nothyphen" -> c /= "-"

RECURSIVE RunLength(_, _, _)
\* how many consecutive characters of class cls start at position pos
RunLength(s, pos, cls) ==
    IF pos > Len(s) \/ ~InClass(s[pos], cls) THEN 0
    ELSE 1 + RunLength(s, pos + 1, cls)

NoGroups == [version |-> None, date |-> None, commit |-> None, build |-> None]
NoMatch == [ok |-> FALSE, groups |-> NoGroups]

\* $ without re.MULTILINE: at the end of the string, or just before a
\* newline that is the last character
AtDollar(s, pos) ==
    \/ pos = Len(s) + 1
    \/ pos = Len(s) /\ s[pos] = "\n"

RECURSIVE MatchFrom(_, _, _, _, _)
RECURSIVE TryRepeat(_, _, _, _, _, _)

\* backtracking match of pattern elements i.. at position pos of s
MatchFrom(pattern, i, s, pos, groups) ==
    IF i > Len(pattern) THEN [ok |-> TRUE, groups |-> groups]
    ELSE LET e == pattern[i] IN
         CASE e.k = "lit" ->
                IF pos + Len(e.s) - 1 <= Len(s)
                   /\ SubSeq(s, pos, pos + Len(e.s) - 1) = e.s
                THEN MatchFrom(pattern, i + 1, s, pos + Len(e.s), groups)
                ELSE NoMatch
           [] e.k = "grp" ->
                LET run == RunLength(s, pos, e.cls)
                    most == IF e.max = 0 THEN run ELSE Min(run, e.max)
                IN  TryRepeat(pattern, i, s, pos, groups, most)
           [] e.k = "eol" ->
                IF AtDollar(s, pos)
                THEN MatchFrom(pattern, i + 1, s, pos, groups)
                ELSE NoMatch

\* greedy repetition: the longest run first, then one fewer, down to min
TryRepeat(pattern, i, s, pos, groups, n) ==
    IF n < pattern[i].min THEN NoMatch
    ELSE LET r == MatchFrom(pattern, i + 1, s, pos + n,
                     [groups EXCEPT ![pattern[i].name] = SubSeq(s, pos, pos + n - 1)])
         IN  IF r.ok THEN r
             ELSE TryRepeat(pattern, i, s, pos, groups, n - 1)

\* pattern.match(tag_name)
PatternMatch(pattern, tag_name) == MatchFrom(pattern, 1, tag_name, 1, NoGroups)

----------------------------------------------------------------------------
(* next_build_number and build_metadata *)

\* release.get("tag_name") if isinstance(release, dict) else None
TagNameOf(release) == IF release.is_dict THEN release.tag_name ELSE None

\* one iteration of the loop over releases: the new max_build
ScanStepNoMax(max_build, release, aider_version, source_type, date_str, commit_hash, variant) ==
    LET tag_name == TagNameOf(release)
        match == PatternMatch(RE_RELEASE_TAGS(variant, source_type), tag_name)
    IN  IF ~IsStr(tag_name) THEN max_build
        ELSE IF ~match.ok THEN max_build
        ELSE IF source_type = "main"
                /\ (match.groups.date /= date_str \/ match.groups.commit /= commit_hash)
             THEN max_build
        ELSE IF source_type /= "main" /\ match.groups.version /= aider_version
             THEN max_build
        ELSE StrToInt(match.groups.build)

ScanStepNoKey(max_build, release, aider_version, source_type, date_str, commit_hash, variant) ==
    LET tag_name == TagNameOf(release)
        match == PatternMatch(RE_RELEASE_TAGS(variant, source_type), tag_name)
    IN  IF ~IsStr(tag_name) THEN max_build
        ELSE IF ~match.ok THEN max_build
        ELSE Max(max_build, StrToInt(match.groups.build))

ScanStep(max_build, release, aider_version, source_type, date_str, commit_hash, variant) ==
    LET tag_name == TagNameOf(release)
        match == PatternMatch(RE_RELEASE_TAGS(variant, source_type), tag_name)
    IN  IF ~IsStr(tag_name) THEN max_build
        ELSE IF ~match.ok THEN max_build
        ELSE IF source_type = "main"
                /\ (match.groups.date /= date_str \/ match.groups.commit /= commit_hash)
             THEN max_build
        ELSE IF source_type /= "main" /\ match.groups.version /= aider_version
             THEN max_build
        ELSE Max(max_build, StrToInt(match.groups.build))

RECURSIVE ScanFrom(_, _, _, _, _, _, _, _)
ScanFrom(rels, i, max_build, aider_version, source_type, date_str, commit_hash, variant) ==
    IF i > Len(rels) THEN max_build
    ELSE ScanFrom(rels, i + 1,
                  ScanStep(max_build, rels[i], aider_version, source_type,
                           date_str, commit_hash, variant),
                  aider_version, source_type, date_str, commit_hash, variant)

next_build_number(rels, aider_version, source_type, date_str, commit_hash, variant) ==
    ScanFrom(rels, 1, 0, aider_version, source_type, date_str, commit_hash,
             variant) + 1

ArtifactName(aider_version, build_number, source_type, date_str, commit_hash, variant) ==
    (IF variant = "aider-ce" THEN L_aider_ce ELSE L_aider)
    \o (IF source_type = "main"
        THEN L_main \o PyStr(date_str) \o L_hyphen \o PyStr(commit_hash)
        ELSE PyStr(aider_version))
    \o L_build \o IntToStr(build_number)

build_metadata(aider_version, build_number, source_type, date_str, commit_hash, variant) ==
    [variant |-> variant,
     aider_version |-> aider_version,
     build_number |-> build_number,
     tag_name |-> Format(RELEASE_TAG_TEMPLATES(variant, source_type),
                         [aider_version |-> aider_version, date |-> date_str,
                          commit_hash |-> commit_hash,
                          build_number |-> build_number]),
     artifact_name |-> ArtifactName(aider_version, build_number, source_type,
                                    date_str, commit_hash, variant),
     source_type |-> source_type,
     commit_hash |-> commit_hash]

----------------------------------------------------------------------------
(* Bounds and input domains *)

MaxFieldLen == 2
MaxBuild == 2

\* every string over chars of at most n characters
StringsUpTo(chars, n) == UNION {[1..k -> chars] : k \in 0..n}

\* --aider-version values: a digit, a dot, a hyphen
VersionChars == {"1", ".", "-"}
VersionInputs == StringsUpTo(VersionChars, MaxFieldLen)

Date1 == <<"2", "0", "2", "4", "0", "1", "0", "1">>
Date2 == <<"2", "0", "2", "4", "0", "1", "0", "2">>
DateShort == <<"2", "0", "2", "4", "0", "1", "1">>
DateIso == <<"2", "0", "2", "4", "-", "0", "1", "-", "0", "1">>
\* --date values: YYYYMMDD, seven digits, an ISO date, empty, absent
DateInputs == {Date1, Date2, DateShort, DateIso, <<>>, None}

\* --commit-hash values: lower-case hex, upper-case hex, a hyphen; or absent
CommitChars == {"a", "1", "A", "-"}
CommitInputs == StringsUpTo(CommitChars, MaxFieldLen) \cup {None}

\* build numbers an int argument can hold, a negative one included
BuildInputs == (0 - 1)..MaxBuild

NoRegistry == [v \in Variants |-> [releases |-> {}, info |-> None]]

----------------------------------------------------------------------------
(* SpecTag: build_metadata's tag_name put through RE_RELEASE_TAGS *)

TagInputs ==
    [variant : Variants, source_type : {"pypi"}, aider_version : VersionInputs,
     date : {None}, commit_hash : {None}, build_number : BuildInputs]
    \cup
    [variant : Variants, source_type : {"main"}, aider_version : {<<"1">>},
     date : DateInputs, commit_hash : CommitInputs, build_number : BuildInputs]

TagInit ==
    /\ releases = <<>>
    /\ pypi = NoRegistry
    /\ published = {}
    /\ args \in TagInputs
    /\ out = [stage |-> "input"]

FormatTag ==
    /\ out.stage = "input"
    /\ out' = [stage |-> "formatted",
               metadata |-> build_metadata(args.aider_version, args.build_number,
                                           args.source_type, args.date,
                                           args.commit_hash, args.variant)]
    /\ UNCHANGED <<releases, pypi, args, published>>

MatchTag ==
    /\ out.stage = "formatted"
    /\ out' = [stage |-> "matched",
               metadata |-> out.metadata,
               match |-> PatternMatch(RE_RELEASE_TAGS(args.variant, args.source_type),
                                      out.metadata.tag_name)]
    /\ UNCHANGED <<releases, pypi, args, published>>

TagNext == FormatTag \/ MatchTag

SpecTag == TagInit /\ [][TagNext]_vars

\* the groups a match captured are the fields the tag was formatted from
GroupsEqualFields ==
    /\ out.match.ok
    /\ IF args.source_type = "main"
       THEN /\ out.match.groups.date = args.date
            /\ out.match.groups.commit = args.commit_hash
       ELSE out.match.groups.version = args.aider_version
    /\ StrToInt(out.match.groups.build) = args.build_number

\* C1: round trip. For every variant, source type, field values and build
\* number, the tag_name build_metadata produces is matched by
\* RE_RELEASE_TAGS[variant][source_type] and the captured groups (build parsed
\* as an integer) equal the original fields and build number.
C1_RoundTrip == out.stage = "matched" => GroupsEqualFields

\* fields every group of the pattern can capture
WellFormedFields(a) ==
    /\ a.build_number >= 0
    /\ IF a.source_type = "main"
       THEN /\ IsStr(a.date) /\ Len(a.date) = DateLen
            /\ \A i \in 1..Len(a.date) : a.date[i] \in Digits
            /\ IsStr(a.commit_hash) /\ a.commit_hash /= <<>>
            /\ \A i \in 1..Len(a.commit_hash) : a.commit_hash[i] \in HexChars
       ELSE /\ a.aider_version /= <<>>
            /\ \A i \in 1..Len(a.aider_version) : a.aider_version[i] /= "-"

\* the round trip holds exactly for the well-formed fields
C1_RoundTripIffWellFormed ==
    out.stage = "matched" => (GroupsEqualFields <=> WellFormedFields(args))

----------------------------------------------------------------------------
(* SpecScan: next_build_number over a growing release listing *)

MaxListing == 2

V10 == <<"1", ".", "0">>
V100 == <<"1", ".", "0", ".", "0">>
Cab == <<"a", "b">>
Cabc == <<"a", "b", "c">>

\* what a build number is counted per
Key(variant, source_type, aider_version, date, commit_hash) ==
    [variant |-> variant, source_type |-> source_type,
     aider_version |-> aider_version, date |-> date, commit_hash |-> commit_hash]

\* every key over two versions ("1.0" and "1.0.0"), two dates, two commits
KeyUniverse ==
    [variant : Variants, source_type : SourceTypes, aider_version : {V10, V100},
     date : {Date1, Date2}, commit_hash : {Cab, Cabc}]

\* the keys scanned for: one per variant and source type
ScanKeys == {k \in KeyUniverse : k.aider_version = V10 /\ k.date = Date1 /\ k.commit_hash = Cab}

KeyOf(a) == Key(a.variant, a.source_type, a.aider_version, a.date, a.commit_hash)

SameKind(k1, k2) == k1.variant = k2.variant /\ k1.source_type = k2.source_type

\* two keys that name the same thing to build: for main the version plays
\* no part, for pypi the date and commit play none
SameKey(k1, k2) ==
    /\ SameKind(k1, k2)
    /\ IF k1.source_type = "main"
       THEN k1.date = k2.date /\ k1.commit_hash = k2.commit_hash
       ELSE k1.aider_version = k2.aider_version

TagOf(k, n) == build_metadata(k.aider_version, n, k.source_type, k.date, k.commit_hash, k.variant).tag_name

Release(tag_name) == [is_dict |-> TRUE, tag_name |-> tag_name]
NotADict == [is_dict |-> FALSE, tag_name |-> None]

\* a published tag with characters added around it
Decorations(tag) == {tag \o <<"\n">>, tag \o <<"x">>, <<"x">> \o tag}

\* how many of variant, source type, version, date and commit differ
Distance(k1, k2) ==
    Cardinality({f \in {"variant", "source_type", "aider_version", "date", "commit_hash"} : k1[f] /= k2[f]})

\* the keys other than k that differ from it in one respect
Neighbours(k) == {k2 \in KeyUniverse : ~SameKey(k2, k) /\ Distance(k2, k) = 1}

\* the same release with its build number zero-padded
ZeroPadded(k, n) == SubSeq(TagOf(k, n), 1, Len(TagOf(k, 0)) - 1) \o <<"0">> \o IntToStr(n)

\* what the listing may hold for a scan of key k: k's own releases, those
\* with text around them, the releases of every other key, and entries
\* without a usable tag_name
ListingEntries ==
    [k \in ScanKeys |->
        {Release(TagOf(k, n)) : n \in 1..MaxBuild}
        \cup {Release(d) : d \in Decorations(TagOf(k, MaxBuild))}
        \cup {Release(ZeroPadded(k, MaxBuild))}
        \cup {Release(TagOf(k2, MaxBuild)) : k2 \in Neighbours(k)}
        \cup {Release(NonStr), NotADict}]

ScanInit ==
    /\ releases = <<>>
    /\ pypi = NoRegistry
    /\ published = {}
    /\ args \in ScanKeys
    /\ out = [stage |-> "idle"]

\* a release appears in the repository's listing
AddRelease(r) ==
    /\ Len(releases) < MaxListing
    /\ releases' = Append(releases, r)
    /\ out' = [stage |-> "idle"]
    /\ UNCHANGED <<pypi, args, published>>

Scan ==
    /\ out.stage = "idle"
    /\ out' = [stage |-> "scanned",
               result |-> next_build_number(releases, args.aider_version,
                                            args.source_type, args.date,
                                            args.commit_hash, args.variant)]
    /\ UNCHANGED <<releases, pypi, args, published>>

ScanNext == (\E r \in ListingEntries[args] : AddRelease(r)) \/ Scan

SpecScan == ScanInit /\ [][ScanNext]_vars

SetMax(S) == CHOOSE x \in S : \A y \in S : y <= x

\* the release is one the scan of key k counts: a dict with a str tag_name
\* that the selected pattern matches with k's version (or date and commit)
Counted(r, k) ==
    /\ r.is_dict
    /\ IsStr(r.tag_name)
    /\ LET m == PatternMatch(RE_RELEASE_TAGS(k.variant, k.source_type), r.tag_name)
       IN  /\ m.ok
           /\ IF k.source_type = "main"
              THEN m.groups.date = k.date /\ m.groups.commit = k.commit_hash
              ELSE m.groups.version = k.aider_version

CountedBuilds(rels, k) ==
    {StrToInt(PatternMatch(RE_RELEASE_TAGS(k.variant, k.source_type),
                           rels[i].tag_name).groups.build) :
        i \in {j \in 1..Len(rels) : Counted(rels[j], k)}}

\* C3: next_build_number returns one more than the maximum build number among
\* the listing's tags that match the selected pattern and carry the same key,
\* and 1 when no tag in the listing matches that key.
C3_MaxPlusOne ==
    out.stage = "scanned" =>
        /\ out.result = SetMax(CountedBuilds(releases, args) \cup {0}) + 1
        /\ (CountedBuilds(releases, args) = {} => out.result = 1)

C3_Witness ==
    /\ out.stage = "scanned"
    /\ Len(releases) = MaxListing
    /\ Cardinality(CountedBuilds(releases, args)) >= 2
    /\ out.result = MaxBuild + 1

\* the release carries a tag build_metadata makes for a key other than k
\* every tag build_metadata makes over KeyUniverse, with the key it is made for
TagUniverse == {[key |-> k2, tag_name |-> TagOf(k2, n)] : k2 \in KeyUniverse, n \in 0..MaxBuild}

IsForeign(r, k) ==
    /\ r.is_dict
    /\ IsStr(r.tag_name)
    /\ \E e \in TagUniverse : e.tag_name = r.tag_name /\ ~SameKey(e.key, k)

WithoutForeign(rels, k) ==
    LET Keep(r) == ~IsForeign(r, k) IN SelectSeq(rels, Keep)

\* C4: isolation. Tags of a different variant, source type, version or
\* date+commit in the listing do not change the result of next_build_number;
\* a listing made only of such tags gives 1, as the empty listing does.
C4_Isolation ==
    out.stage = "scanned" =>
        /\ out.result = next_build_number(WithoutForeign(releases, args),
                                          args.aider_version, args.source_type,
                                          args.date, args.commit_hash, args.variant)
        /\ (WithoutForeign(releases, args) = <<>> => out.result = 1)

C4_Witness ==
    /\ out.stage = "scanned"
    /\ out.result = MaxBuild + 1
    /\ \E i \in 1..Len(releases) :
          /\ IsForeign(releases[i], args)
          /\ \E k2 \in KeyUniverse :
                /\ SameKind(k2, args)
                /\ releases[i].tag_name = TagOf(k2, MaxBuild)

\* the whole of tag is a tag of key k: the template's text with k's fields
\* and then nothing but the digits of a build number
IsEntireTag(tag, k) ==
    LET head == SubSeq(TagOf(k, 0), 1, Len(TagOf(k, 0)) - 1)
    IN  /\ Len(tag) > Len(head)
        /\ SubSeq(tag, 1, Len(head)) = head
        /\ \A i \in (Len(head) + 1)..Len(tag) : tag[i] \in Digits

EntireTagBuilds(rels, k) ==
    LET head == SubSeq(TagOf(k, 0), 1, Len(TagOf(k, 0)) - 1)
    IN  {StrToInt(SubSeq(rels[i].tag_name, Len(head) + 1, Len(rels[i].tag_name))) :
            i \in {j \in 1..Len(rels) :
                      /\ rels[j].is_dict
                      /\ IsStr(rels[j].tag_name)
                      /\ IsEntireTag(rels[j].tag_name, k)}}

\* C9: full-string match. A release counts only when its entire tag_name is
\* a tag of the key: a valid tag with extra characters before or after it
\* (a single trailing newline included) never contributes to the result.
C9_OnlyEntireTagsCount ==
    out.stage = "scanned" =>
        out.result = SetMax(EntireTagBuilds(releases, args) \cup {0}) + 1

----------------------------------------------------------------------------
(* compute_version.main *)

\* an Optional[int] argument: <<>> is None, <<n>> is n
NoInt == <<>>

Idle == [stage |-> "idle"]

\* the names an error message spells out
FieldsRequired == [id |-> "fields_required", names |-> {"--commit-hash", "--date"}]
EnvRequired == [id |-> "env_required", names |-> {"GITHUB_REPOSITORY", "GITHUB_TOKEN"}]
FetchFailed == [id |-> "fetch_failed", names |-> {}]
UnexpectedResponse == [id |-> "unexpected_response", names |-> {}]
Traceback == [id |-> "traceback", names |-> {}]
NoMessage == [id |-> "none", names |-> {}]

\* what fetch_releases does: return the listing, raise URLError, find the
\* body is not a list, or raise an error that is not a URLError
FetchOutcomes == {"ok", "URLError", "not_list", "OSError"}

FieldsMissingBoth(a) ==
    a.source_type = "main" /\ (~Truthy(a.commit_hash) /\ ~Truthy(a.date))

\* args.source_type == "main" and (not args.commit_hash or not args.date)
FieldsMissing(a) ==
    a.source_type = "main" /\ (~Truthy(a.commit_hash) \/ ~Truthy(a.date))

NeedsAllocationFalsy(a) ==
    a.override_build_number = NoInt \/ a.override_build_number = <<0>>

\* build_number is None
NeedsAllocation(a) == a.override_build_number = NoInt

\* the invocation ends without metadata: SystemExit(message) or a traceback
Abort(exit, message, fetched) ==
    [stage |-> "exited", exit |-> exit, message |-> message,
     fetched |-> fetched, scanned |-> FALSE,
     output_written |-> FALSE, github_output |-> <<>>]

\* the lines appended to the --github-output file
OutputLines(metadata) ==
    <<[name |-> "build_number", value |-> IntToStr(metadata.build_number)],
      [name |-> "tag_name", value |-> metadata.tag_name],
      [name |-> "artifact_name", value |-> metadata.artifact_name]>>

\* build_metadata, the --output file, the --github-output lines, return 0
Emit(a, build_number, fetched) ==
    LET metadata == build_metadata(a.aider_version, build_number, a.source_type,
                                   a.date, a.commit_hash, a.variant)
    IN  [stage |-> "exited", exit |-> "ok", message |-> NoMessage,
         fetched |-> fetched, scanned |-> fetched,
         output_written |-> TRUE,
         github_output |-> IF Truthy(a.github_output) THEN OutputLines(metadata) ELSE <<>>,
         metadata |-> metadata]

\* main(argv) with environment env, the listing the repository holds and
\* the outcome net of the one HTTP request
MainResult(a, env, net, listing) ==
    IF FieldsMissing(a) THEN Abort("SystemExit", FieldsRequired, FALSE)
    ELSE IF NeedsAllocation(a)
    THEN IF ~Truthy(env.GITHUB_REPOSITORY) \/ ~Truthy(env.GITHUB_TOKEN)
         THEN Abort("SystemExit", EnvRequired, FALSE)
         ELSE CASE net = "URLError" -> Abort("SystemExit", FetchFailed, TRUE)
                [] net = "not_list" -> Abort("SystemExit", UnexpectedResponse, TRUE)
                [] net = "OSError" -> Abort("exception", Traceback, TRUE)
                [] net = "ok" ->
                     Emit(a, next_build_number(listing, a.aider_version, a.source_type,
                                               a.date, a.commit_hash, a.variant), TRUE)
    ELSE Emit(a, a.override_build_number[1], FALSE)

Main(a, env, net) ==
    /\ args' = [cli |-> a, environ |-> env, net |-> net]
    /\ out' = MainResult(a, env, net, releases)
    /\ UNCHANGED <<releases, pypi, published>>

\* the release step that follows a successful run: the tag joins the listing
Publish ==
    /\ out.stage = "exited"
    /\ out.exit = "ok"
    /\ Len(releases) < MaxListing
    /\ releases' = Append(releases, Release(out.metadata.tag_name))
    /\ published' = published \cup {[key |-> KeyOf(args.cli), build |-> out.metadata.build_number]}
    /\ out' = [out EXCEPT !.stage = "published"]
    /\ UNCHANGED <<pypi, args>>

----------------------------------------------------------------------------
(* SpecMain: one invocation of compute_version over every command line *)

Path == <<"p">>
Repo == <<"r">>
Token == <<"t">>

CommandLines ==
    [variant : Variants, source_type : SourceTypes, aider_version : {V10},
     date : {None, <<>>, Date1}, commit_hash : {None, <<>>, Cab},
     override_build_number : {NoInt} \cup {<<n>> : n \in 0..MaxBuild},
     github_output : {None, Path}]

Environments ==
    {[GITHUB_REPOSITORY |-> Repo, GITHUB_TOKEN |-> Token],
     [GITHUB_REPOSITORY |-> None, GITHUB_TOKEN |-> Token],
     [GITHUB_REPOSITORY |-> Repo, GITHUB_TOKEN |-> <<>>],
     [GITHUB_REPOSITORY |-> None, GITHUB_TOKEN |-> None]}

\* listings the repository may hold when the command runs
MainListings ==
    {<<>>,
     <<Release(TagOf(Key("aider-chat", "pypi", V10, None, None), 1)),
       Release(TagOf(Key("aider-ce", "main", V10, Date1, Cab), MaxBuild))>>,
     <<Release(TagOf(Key("aider-chat", "main", V10, Date1, Cab), MaxBuild)),
       Release(TagOf(Key("aider-ce", "pypi", V10, None, None), 1)),
       Release(TagOf(Key("aider-chat", "pypi", V100, None, None), MaxBuild))>>}

MainInit ==
    /\ releases \in MainListings
    /\ pypi = NoRegistry
    /\ published = {}
    /\ args = [cli |-> None, environ |-> None, net |-> "ok"]
    /\ out = Idle

\* the command is run once
MainNext ==
    /\ out = Idle
    /\ \E a \in CommandLines, env \in Environments, net \in FetchOutcomes : Main(a, env, net)

SpecMain == MainInit /\ [][MainNext]_vars

MissingFieldNames(a) ==
    (IF Truthy(a.commit_hash) THEN {} ELSE {"--commit-hash"})
    \cup (IF Truthy(a.date) THEN {} ELSE {"--date"})

\* C7: fail fast. With source type main and date or commit missing, the
\* invocation ends with an error before the listing is fetched or scanned and
\* before any output is written, override or not, and the message names the
\* missing fields.
C7_FailFast ==
    (out.stage = "exited" /\ args.cli.source_type = "main"
        /\ MissingFieldNames(args.cli) /= {}) =>
        /\ out.exit = "SystemExit"
        /\ ~out.fetched
        /\ ~out.scanned
        /\ ~out.output_written
        /\ out.github_output = <<>>
        /\ MissingFieldNames(args.cli) \subseteq out.message.names

C7_Witness ==
    /\ out.stage = "exited"
    /\ args.cli.source_type = "main"
    /\ args.cli.date = Date1
    /\ args.cli.commit_hash = None
    /\ args.cli.override_build_number /= NoInt
    /\ args.cli.github_output = Path
    /\ out.exit = "SystemExit"

EndsWith(s, tail) ==
    Len(s) >= Len(tail) /\ SubSeq(s, Len(s) - Len(tail) + 1, Len(s)) = tail

CredentialsSet(env) == Truthy(env.GITHUB_REPOSITORY) /\ Truthy(env.GITHUB_TOKEN)

\* C10: with --override-build-number, build_number, tag_name and
\* artifact_name carry exactly that number, nothing is fetched and the
\* credentials are not looked at; without it, a missing credential ends the
\* invocation before any fetch, and otherwise the build number is
\* next_build_number of the fetched listing.
C10_Override ==
    out.stage = "exited" =>
        IF args.cli.override_build_number /= NoInt
        THEN LET n == args.cli.override_build_number[1] IN
             /\ ~out.fetched
             /\ out.exit = "ok" <=> ~FieldsMissing(args.cli)
             /\ out.exit = "ok" =>
                  /\ out.metadata.build_number = n
                  /\ EndsWith(out.metadata.tag_name, L_build \o IntToStr(n))
                  /\ EndsWith(out.metadata.artifact_name, L_build \o IntToStr(n))
                  /\ out.github_output /= <<>> => out.github_output[1].value = IntToStr(n)
        ELSE IF ~CredentialsSet(args.environ)
        THEN out.exit = "SystemExit" /\ ~out.fetched /\ ~out.output_written
        ELSE ~FieldsMissing(args.cli) =>
                /\ out.fetched
                /\ args.net = "ok" =>
                     /\ out.exit = "ok"
                     /\ out.metadata.build_number =
                           next_build_number(releases, args.cli.aider_version,
                                             args.cli.source_type, args.cli.date,
                                             args.cli.commit_hash, args.cli.variant)
                     /\ out.metadata.build_number =
                           SetMax(CountedBuilds(releases, KeyOf(args.cli)) \cup {0}) + 1

C10_Witness ==
    /\ out.stage = "exited"
    /\ args.cli.override_build_number = <<0>>
    /\ ~CredentialsSet(args.environ)
    /\ releases /= <<>>
    /\ out.exit = "ok"
    /\ out.metadata.build_number = 0

----------------------------------------------------------------------------
(* SpecAlloc: runs that allocate a build number and publish the release *)

V1h0 == <<"1", "-", "0">>
CAB == <<"A", "B">>

AllCredentials == [GITHUB_REPOSITORY |-> Repo, GITHUB_TOKEN |-> Token]

\* command lines without an override: versions "1.0" and "1-0", dates
\* 20240101 and 2024-01-01, commits ab and AB
AllocCommandLines ==
    [variant : Variants, source_type : {"pypi"}, aider_version : {V10, V1h0},
     date : {None}, commit_hash : {None},
     override_build_number : {NoInt}, github_output : {None}]
    \cup
    [variant : Variants, source_type : {"main"}, aider_version : {V10},
     date : {Date1, DateIso}, commit_hash : {Cab, CAB},
     override_build_number : {NoInt}, github_output : {None}]

AllocInit ==
    /\ releases = <<>>
    /\ pypi = NoRegistry
    /\ published = {}
    /\ args = [cli |-> None, environ |-> None, net |-> "ok"]
    /\ out = Idle

AllocNext ==
    \/ \E a \in AllocCommandLines : Main(a, AllCredentials, "ok")
    \/ Publish

SpecAlloc == AllocInit /\ [][AllocNext]_vars

Allocated == out.stage = "exited" /\ out.exit = "ok"

\* C2: no collision. The tag a run produces from the listing it scanned is
\* never the tag_name of a release already in that listing.
C2_NoCollision ==
    Allocated =>
        \A i \in 1..Len(releases) : TagNameOf(releases[i]) /= out.metadata.tag_name

\* C5: per key, each build number allocated is strictly greater than every
\* build number allocated and published for that key before.
C5_StrictlyIncreasing ==
    Allocated =>
        \A p \in published :
            SameKey(p.key, KeyOf(args.cli)) => out.metadata.build_number > p.build

CliWellFormed(a) ==
    WellFormedFields([source_type |-> a.source_type, aider_version |-> a.aider_version,
                      date |-> a.date, commit_hash |-> a.commit_hash, build_number |-> 0])

\* both hold of the runs whose fields the tag pattern can capture
AllocWellFormed ==
    (Allocated /\ CliWellFormed(args.cli)) =>
        /\ \A i \in 1..Len(releases) : TagNameOf(releases[i]) /= out.metadata.tag_name
        /\ \A p \in published :
              SameKey(p.key, KeyOf(args.cli)) => out.metadata.build_number > p.build

----------------------------------------------------------------------------
(* fetch_aider_release: fetch_release_data, resolve_version, main *)

\* the PyPI project each variant is looked up under
PYPI_URLS == [v \in Variants |-> IF v = "aider-ce" THEN "cecli-dev" ELSE "aider-chat"]
Projects == {PYPI_URLS[v] : v \in Variants}

NotFound == [id |-> "not_found", names |-> {}]
NoLatest == [id |-> "no_latest", names |-> {}]
Unreachable == [id |-> "registry_unreachable", names |-> {}]

\* how the one GET ends: a JSON document, a URLError raised by urlopen, or
\* the connection reset while the response is read (an OSError that is not
\* a URLError)
RegistryOutcomes == {"ok", "URLError", "ConnectionResetError"}

\* data.get("releases", {})
ReleasesOf(data) == IF data.has_releases THEN data.releases ELSE {}

\* data.get("info", {}).get("version")
LatestOf(data) == IF data.has_info THEN data.version ELSE None

Returned(version) == [raised |-> "none", message |-> NoMessage, version |-> version]
Raised(exc, message) == [raised |-> exc, message |-> message, version |-> None]

fetch_release_data(variant) == pypi[PYPI_URLS[variant]]

resolve_version_fallback(requested, variant) ==
    LET data == fetch_release_data(variant)
        version == LatestOf(data)
    IN  IF Truthy(requested) /\ requested \in ReleasesOf(data) THEN Returned(requested)
        ELSE IF ~Truthy(version) THEN Raised("SystemExit", NoLatest)
        ELSE Returned(version)

\* resolve_version once the document has arrived
resolve_version(requested, variant) ==
    LET data == fetch_release_data(variant)
        version == LatestOf(data)
    IN  IF Truthy(requested)
        THEN IF requested \notin ReleasesOf(data)
             THEN Raised("SystemExit", NotFound)
             ELSE Returned(requested)
        ELSE IF ~Truthy(version) THEN Raised("SystemExit", NoLatest)
        ELSE Returned(version)

\* main: try resolve_version, except URLError -> SystemExit; print; append
ResolveResult(a, net) ==
    LET r == CASE net = "URLError" -> Raised("SystemExit", Unreachable)
               [] net = "ConnectionResetError" -> Raised("exception", Traceback)
               [] net = "ok" -> resolve_version(a.requested, a.variant)
    IN  [stage |-> "exited",
         exit |-> IF r.raised = "none" THEN "ok" ELSE r.raised,
         message |-> r.message,
         version |-> r.version,
         stdout |-> IF r.raised = "none" THEN <<r.version>> ELSE <<>>,
         github_output |-> IF r.raised = "none" /\ Truthy(a.github_output)
                           THEN <<[name |-> "aider_version", value |-> r.version]>>
                           ELSE <<>>]

ResolveMain(a, net) ==
    /\ args' = [cli |-> a, net |-> net]
    /\ out' = ResolveResult(a, net)
    /\ UNCHANGED <<releases, pypi, published>>

----------------------------------------------------------------------------
(* SpecResolve: one invocation of fetch_aider_release over every registry *)

RegistryVersions == {V10, V100}

\* the JSON documents an endpoint may serve
Documents ==
    [has_releases : {TRUE}, releases : SUBSET RegistryVersions,
     has_info : {TRUE}, version : RegistryVersions \cup {None, <<>>}]
    \cup
    [has_releases : BOOLEAN, releases : {{}},
     has_info : {FALSE}, version : {None}]

ResolveCommandLines ==
    [requested : RegistryVersions \cup {V1h0, None, <<>>}, variant : Variants,
     github_output : {None, Path}]

ResolveInit ==
    /\ releases = <<>>
    /\ pypi \in [Projects -> Documents]
    /\ published = {}
    /\ args = [cli |-> None, net |-> "ok"]
    /\ out = Idle

\* the command is run once
ResolveNext ==
    /\ out = Idle
    /\ \E a \in ResolveCommandLines, net \in RegistryOutcomes : ResolveMain(a, net)

SpecResolve == ResolveInit /\ [][ResolveNext]_vars

\* the document of the project the invocation's variant is looked up under
AskedDocument == pypi[IF args.cli.variant = "aider-ce" THEN "cecli-dev" ELSE "aider-chat"]

C8_TransportFailure ==
    out.stage = "exited" =>
        /\ args.net /= "ok" =>
              /\ out.exit = "SystemExit"
              /\ out.message = Unreachable
              /\ out.stdout = <<>>
        /\ args.net = "ok" => out.message /= Unreachable

\* what holds of every failed fetch: no version comes out and version not
\* found is not reported; the registry-unreachable message is that of a
\* URLError alone
C8_FailedFetch ==
    out.stage = "exited" =>
        /\ args.net /= "ok" =>
              /\ out.exit /= "ok"
              /\ out.message /= NotFound
              /\ out.stdout = <<>>
              /\ out.github_output = <<>>
        /\ out.message = Unreachable <=> args.net = "URLError"

====
